---- MODULE Spec2Model ----
(***************************************************************************)
(* Model of the language-detection engine of src/detector.py               *)
(* (class LanguageDetector).                                               *)
(*                                                                         *)
(* Representation.                                                         *)
(*  - A text is a sequence of characters; a character is a one-character   *)
(*    string, or the string "U+XXXX" naming a non-ASCII code point.        *)
(*  - A float ratio a/b is the record [num |-> a, den |-> b] (den > 0);    *)
(*    a comparison with a decimal literal is done by cross-multiplication  *)
(*    in hundredths, so `ratio > 0.3' is GtPct(ratio, 30).                 *)
(*  - A confidence score is an integer number of hundredths (0.85 is 85).  *)
(*    The IEEE-754 sums of the code differ from these by rounding error    *)
(*    only (0.8999999999999999 for 90); no comparison of the code depends  *)
(*    on that error.  The one float product of the code, 3 * hindi_ratio,  *)
(*    agrees with exact arithmetic for alnum_tokens <= 9 (it first differs *)
(*    at alnum_tokens = 10, hits 3 and 9), which covers MaxTokens.         *)
(***************************************************************************)
EXTENDS Integers, Sequences, FiniteSets, TLC

VARIABLES
  pc,      \* "ready": an input is pending; "done": detect has returned;
           \* "idle" / "called": direct calls of the decision functions;
           \* "serving": a detector answering a sequence of calls;
           \* "main", "stats", "process_file", "returned", "exited": the
           \* position of a run of main or of process_file
  text,    \* the text handed to detect
  result,  \* <<>> or <<r>>, r the DetectionResult returned by detect
  call,    \* <<>> or <<c>>, c the arguments and value of a direct call
  hindi_words,    \* the class attribute LanguageDetector.HINDI_WORDS
  english_words,  \* the class attribute LanguageDetector.ENGLISH_WORDS
  log,     \* the detect calls that have returned, each with its result
  frames,  \* for each caller, the detect call it is executing, if any
  locals,  \* the values of the local variables of the calls in progress
  args,    \* how the run was started: entry point and command-line flags
  lines,   \* the lines of the input file
  line_no, \* number of input lines process_file has read
  out,     \* the records written to the output file
  stats_results,  \* the results main collects for --stats
  exit_code       \* -1 while the process runs, then its exit status

detectVars == <<text, result>>
classVars  == <<hindi_words, english_words>>
callVars   == <<log, frames, locals>>
fileVars   == <<args, lines, line_no, out, stats_results, exit_code>>
vars == <<pc, text, result, call, hindi_words, english_words, log,
          frames, locals, args, lines, line_no, out, stats_results, exit_code>>

(***************************************************************************)
(* Bounds of the model.                                                    *)
(***************************************************************************)
\* longest text enumerated character by character
MaxLen == 3
\* most vocabulary words in an enumerated word text
MaxWords == 6
\* largest total_chars in a direct call
MaxChars == 20
\* largest total_tokens in a direct call
MaxTokens == 8
\* most detect calls in a sequence of calls
MaxConfTokens == 6
MaxLatinTokens == 15
MaxCalls == 3
\* most lines of an input file handed to process_file
MaxLines == 3
\* most lines of an input file handed to main
MaxCliLines == 6

(***************************************************************************)
(* Characters and the character classes the regular expressions and the   *)
(* str methods of the code distinguish.                                    *)
(***************************************************************************)
LowerSeq == <<"a","b","c","d","e","f","g","h","i","j","k","l","m",
              "n","o","p","q","r","s","t","u","v","w","x","y","z">>
UpperSeq == <<"A","B","C","D","E","F","G","H","I","J","K","L","M",
              "N","O","P","Q","R","S","T","U","V","W","X","Y","Z">>
LatinLower  == {LowerSeq[i] : i \in 1..26}
LatinUpper  == {UpperSeq[i] : i \in 1..26}
AsciiDigits == {"0","1","2","3","4","5","6","7","8","9"}
Whitespace  == {" ", "\t", "\n"}
\* U+0915 KA, U+092E MA, U+0928 NA (letters, category Lo)
DevLetters  == {"U+0915", "U+092E", "U+0928"}
\* U+093E vowel sign AA (Mc), U+094D virama (Mn): in the block, not \w
DevMarks    == {"U+093E", "U+094D"}
\* U+0966..U+096F Devanagari digits (Nd): in the block, \d and \w
DevDigits   == {"U+0966","U+0967","U+0968","U+0969","U+096A",
                "U+096B","U+096C","U+096D","U+096E","U+096F"}
\* one code point of each range of the emoji character class
EmojiChars  == {"U+1F600", "U+1F300", "U+1F680", "U+1F1E6"}
\* letters and digits of other scripts: \w (and \d) but not ASCII
OtherLetters == {"U+00E9", "U+4E2D"}
OtherDigits  == {"U+0663"}
\* characters that are in no class above except that of non-whitespace
OtherSymbols == {"!", "@", "?", "U+2764"}

IsSpace(c)      == c \in Whitespace
IsLatin(c)      == c \in LatinLower \cup LatinUpper
IsDevanagari(c) == c \in DevLetters \cup DevMarks \cup DevDigits
IsEmoji(c)      == c \in EmojiChars
IsDigit(c)      == c \in AsciiDigits \cup DevDigits \cup OtherDigits
IsWord(c)       == \/ IsLatin(c)
                   \/ IsDigit(c)
                   \/ c = "_"
                   \/ c \in DevLetters \cup OtherLetters
IsNumericChar(c) == IsDigit(c) \/ IsSpace(c) \/ c \in {"-", "+", ".", ",", "%"}
IsAsciiAlnum(c)  == IsLatin(c) \/ c \in AsciiDigits

ToLower(c) == IF c \in LatinUpper
              THEN LowerSeq[CHOOSE i \in 1..26 : UpperSeq[i] = c]
              ELSE c
Lower(s) == [i \in 1..Len(s) |-> ToLower(s[i])]

Max(a, b) == IF a >= b THEN a ELSE b
Min(a, b) == IF a <= b THEN a ELSE b

\* ratio arithmetic
Frac(n, d)  == [num |-> n, den |-> d]
GtPct(r, p) == r.num * 100 > p * r.den     \* r >  p/100
GePct(r, p) == r.num * 100 >= p * r.den    \* r >= p/100
LePct(r, p) == r.num * 100 <= p * r.den    \* r <= p/100
FracGt(r, q) == r.num * q.den > q.num * r.den
FracMax(r, q) == IF FracGt(q, r) THEN q ELSE r

(***************************************************************************)
(* IEEE-754 double arithmetic, for the one comparison of the program whose *)
(* floating-point value differs from the value in exact arithmetic:        *)
(* english_ratio > 3 * hindi_ratio.  A positive double is its 53 mantissa  *)
(* bits, most significant (a 1) first, and the exponent of that bit.  The  *)
(* comparisons of a ratio with a literal (GtPct, GePct, LePct) and of two  *)
(* ratios of one denominator (FracGt) are exact: rounding is monotone, two *)
(* equal reals round alike, and two different ones here are more than one  *)
(* rounding step apart.                                                    *)
(***************************************************************************)
MantissaBits == 53

Front(s) == SubSeq(s, 1, Len(s) - 1)
Last(s)  == s[Len(s)]

RECURSIVE Pow2(_)
Pow2(j) == IF j = 0 THEN 1 ELSE 2 * Pow2(j - 1)

\* the shift that brings a into [n, 2n), and a * 2^shift, for 0 < a <= n
Normalise(a, n) ==
  LET shift == CHOOSE j \in 0..30 : n <= a * Pow2(j) /\ a * Pow2(j) < 2 * n
  IN [num |-> a * Pow2(shift), shift |-> shift]

\* the first k bits of r / n for n <= r < 2n, by long division
RECURSIVE DivBits(_, _, _)
DivBits(r, n, k) ==
  IF k = 0 THEN <<>>
  ELSE IF r >= n THEN <<1>> \o DivBits(2 * (r - n), n, k - 1)
  ELSE <<0>> \o DivBits(2 * r, n, k - 1)

\* the remainder left after those k bits
RECURSIVE DivRem(_, _, _)
DivRem(r, n, k) ==
  IF k = 0 THEN r
  ELSE IF r >= n THEN DivRem(2 * (r - n), n, k - 1)
  ELSE DivRem(2 * r, n, k - 1)

\* bits + 1; one bit longer when every bit was 1
RECURSIVE Increment(_)
Increment(bits) ==
  IF bits = <<>> THEN <<1>>
  ELSE IF Last(bits) = 0 THEN Front(bits) \o <<1>>
  ELSE Increment(Front(bits)) \o <<0>>

\* the sum of two bit sequences of one length and a carry
RECURSIVE AddBits(_, _, _)
AddBits(x, y, carry) ==
  IF x = <<>> THEN (IF carry = 1 THEN <<1>> ELSE <<>>)
  ELSE AddBits(Front(x), Front(y), (Last(x) + Last(y) + carry) \div 2)
       \o <<(Last(x) + Last(y) + carry) % 2>>

\* round-to-nearest-even of the value with the bits given (the first a 1,
\* of exponent exp) and something non-zero beyond them iff sticky
RoundNearestEven(bits, sticky, exp) ==
  LET keep  == SubSeq(bits, 1, MantissaBits)
      rest  == SubSeq(bits, MantissaBits + 1, Len(bits))
      guard == Len(rest) >= 1 /\ rest[1] = 1
      more  == sticky \/ \E i \in 2..Len(rest) : rest[i] = 1
      up    == guard /\ (more \/ keep[MantissaBits] = 1)
      inc   == Increment(keep)
  IN IF ~up THEN [zero |-> FALSE, exp |-> exp, bits |-> keep]
     ELSE IF Len(inc) = MantissaBits
          THEN [zero |-> FALSE, exp |-> exp, bits |-> inc]
     ELSE [zero |-> FALSE, exp |-> exp + 1, bits |-> SubSeq(inc, 1, MantissaBits)]

FloatZero == [zero |-> TRUE, exp |-> 0, bits |-> <<>>]

\* the double a / n of two ints, 0 <= a <= n, n > 0
FloatDiv(a, n) ==
  IF a = 0 THEN FloatZero
  ELSE LET norm == Normalise(a, n)
       IN RoundNearestEven(DivBits(norm.num, n, MantissaBits + 1),
                           DivRem(norm.num, n, MantissaBits + 1) # 0,
                           0 - norm.shift)

\* the double 3 * f: the mantissa plus twice the mantissa, rounded
FloatTimes3(f) ==
  IF f.zero THEN FloatZero
  ELSE LET sum == AddBits(<<0>> \o f.bits, f.bits \o <<0>>, 0)
       IN RoundNearestEven(sum, FALSE, f.exp + (Len(sum) - MantissaBits))

\* the doubles a / n and 3 * (a / n) of the ratios that occur, computed once
MaxDenominator == MaxTokens + MaxLatinTokens + MaxWords + MaxLen

FloatRatios ==
  [n \in 1..MaxDenominator |-> [a \in 0..n |-> FloatDiv(a, n)]]

FloatTriples ==
  [n \in 1..MaxDenominator |-> [a \in 0..n |-> FloatTimes3(FloatRatios[n][a])]]

\* the double of a ratio num / den, and three times it
FloatOf(r) == FloatRatios[r.den][r.num]
FloatTriple(r) == FloatTriples[r.den][r.num]

\* f > g for doubles that are not negative
FloatGt(f, g) ==
  IF f.zero THEN FALSE
  ELSE IF g.zero THEN TRUE
  ELSE \/ f.exp > g.exp
       \/ /\ f.exp = g.exp
          /\ \E i \in 1..MantissaBits :
               /\ f.bits[i] > g.bits[i]
               /\ \A j \in 1..(i - 1) : f.bits[j] = g.bits[j]

(***************************************************************************)
(* The two lexicons (class attributes HINDI_WORDS and ENGLISH_WORDS).      *)
(***************************************************************************)
HINDI_WORDS ==
  {
    <<"a","a","j">>, <<"a","a","p">>, <<"a","a","t","e">>, <<"a","a","y","a">>,
    <<"a","a","y","e","n","g","e">>, <<"a","c","c","h","a">>, <<"a","c","h","h","a">>,
    <<"a","p","n","a">>, <<"a","p","n","e">>, <<"a","p","n","i">>, <<"a","u","r">>,
    <<"a","y","e">>, <<"b","a","h","u","t">>, <<"b","h","a","i">>, <<"b","h","i">>,
    <<"b","i","l","k","u","l">>, <<"b","o","l">>, <<"b","o","l","a">>, <<"b","o","l","e">>,
    <<"b","o","l","e","n","g","e">>, <<"b","o","l","n","a">>, <<"b","o","l","o">>,
    <<"b","o","l","t","e">>, <<"c","h","a","l">>, <<"c","h","a","l","o">>,
    <<"c","h","a","l","t","e">>, <<"d","e">>, <<"d","e","k","h">>, <<"d","e","k","h","a">>,
    <<"d","e","k","h","e">>, <<"d","e","k","h","e","n","g","e">>, <<"d","e","k","h","n","a">>,
    <<"d","e","k","h","o">>, <<"d","e","k","h","t","e">>, <<"d","e","n","a">>,
    <<"d","e","n","e">>, <<"d","e","n","g","e">>, <<"d","i","l">>, <<"d","i","y","a">>,
    <<"d","i","y","e">>, <<"d","o">>, <<"d","o","s","t">>, <<"d","o","s","t","i">>,
    <<"f","r","i","e","n","d","s","h","i","p">>, <<"g","a","y","e">>, <<"g","a","y","i">>,
    <<"h","a","a","n">>, <<"h","a","i">>, <<"h","a","i","n">>, <<"h","a","n">>, <<"h","i">>,
    <<"h","u","m">>, <<"i","s","h","q">>, <<"i","s","l","i","y","e">>, <<"j","a">>,
    <<"j","a","n","a">>, <<"j","a","n","e">>, <<"j","a","o">>, <<"j","a","y","e","n","g","e">>,
    <<"k","a">>, <<"k","a","b">>, <<"k","a","h","a","n">>, <<"k","a","i","s","e">>,
    <<"k","a","l">>, <<"k","a","r">>, <<"k","a","r","e","n","g","e">>, <<"k","a","r","n","a">>,
    <<"k","a","r","n","e">>, <<"k","a","r","o">>, <<"k","a","u","n">>, <<"k","e">>,
    <<"k","h","a","n","a">>, <<"k","h","a","n","e">>, <<"k","h","a","o">>,
    <<"k","h","a","y","a">>, <<"k","h","a","y","e">>, <<"k","h","a","y","e","n","g","e">>,
    <<"k","i">>, <<"k","i","s","k","a">>, <<"k","i","s","k","o">>, <<"k","i","y","a">>,
    <<"k","i","y","e">>, <<"k","o">>, <<"k","y","a">>, <<"k","y","u","n">>,
    <<"k","y","u","n","k","i">>, <<"l","a","g">>, <<"l","a","g","t","a">>,
    <<"l","a","g","t","e">>, <<"l","a","g","t","i">>, <<"l","e">>, <<"l","e","k","i","n">>,
    <<"l","e","n","a">>, <<"l","e","n","e">>, <<"l","e","n","g","e">>, <<"l","i","y","a">>,
    <<"l","i","y","e">>, <<"l","o">>, <<"m","a","g","a","r">>, <<"m","e">>, <<"m","e","i","n">>,
    <<"m","e","r","a">>, <<"m","e","r","e">>, <<"m","e","r","i">>,
    <<"m","o","h","a","b","b","a","t">>, <<"m","u","j","h","e">>, <<"m","u","j","h","s","e">>,
    <<"n","a">>, <<"n","a","h","i">>, <<"n","a","h","i","n">>, <<"p","a","r">>, <<"p","e">>,
    <<"p","y","a","r">>, <<"r","a","h">>, <<"r","a","h","a">>, <<"r","a","h","e">>,
    <<"r","a","h","i">>, <<"s","a","b">>, <<"s","a","b","h","i">>, <<"s","a","m","a","j","h">>,
    <<"s","a","m","a","j","h","n","a">>, <<"s","a","m","a","j","h","t","e">>,
    <<"s","a","m","j","h","a">>, <<"s","a","m","j","h","e">>,
    <<"s","a","m","j","h","e","n","g","e">>, <<"s","a","m","j","h","o">>, <<"s","e">>,
    <<"s","o","n","a">>, <<"s","o","n","e">>, <<"s","o","o">>, <<"s","o","y","a">>,
    <<"s","o","y","e">>, <<"s","o","y","e","n","g","e">>, <<"s","u","n">>, <<"s","u","n","a">>,
    <<"s","u","n","e">>, <<"s","u","n","e","n","g","e">>, <<"s","u","n","n","a">>,
    <<"s","u","n","o">>, <<"s","u","n","t","e">>, <<"t","a","k">>, <<"t","e","r","a">>,
    <<"t","e","r","e">>, <<"t","e","r","i">>, <<"t","h","e","e","k">>,
    <<"t","h","e","e","k","h","a","i">>, <<"t","h","o","d","a">>, <<"t","h","o","d","e">>,
    <<"t","o">>, <<"t","u","m">>, <<"v","o","h">>, <<"w","a","r","n","a">>, <<"w","o","h">>,
    <<"y","a">>, <<"y","a","a","r">>, <<"y","e">>, <<"y","e","h">>
  }

ENGLISH_WORDS ==
  {
    <<"a">>, <<"a","l","t","h","o","u","g","h">>, <<"a","m">>, <<"a","n">>, <<"a","n","d">>,
    <<"a","r","e">>, <<"a","s">>, <<"a","t">>, <<"b","e">>, <<"b","e","c","a","u","s","e">>,
    <<"b","e","e","n">>, <<"b","e","i","n","g">>, <<"b","u","t">>, <<"b","y">>, <<"c","a","n">>,
    <<"c","o","m","e">>, <<"c","o","m","i","n","g">>, <<"c","o","u","l","d">>, <<"d","i","d">>,
    <<"d","o">>, <<"d","o","e","s">>, <<"e","l","s","e">>, <<"f","o","r">>, <<"f","r","o","m">>,
    <<"g","o">>, <<"g","o","i","n","g">>, <<"h","a","d">>, <<"h","a","s">>, <<"h","a","v","e">>,
    <<"h","e">>, <<"h","e","l","l","o">>, <<"h","e","r">>, <<"h","e","r","e">>, <<"h","e","y">>,
    <<"h","i">>, <<"h","i","m">>, <<"h","i","s">>, <<"h","o","w">>,
    <<"h","o","w","e","v","e","r">>, <<"i">>, <<"i","f">>, <<"i","n">>, <<"i","s">>,
    <<"i","t">>, <<"i","t","s">>, <<"m","a","y">>, <<"m","e">>, <<"m","i","g","h","t">>,
    <<"m","u","s","t">>, <<"m","y">>, <<"n","o">>, <<"n","o","t">>, <<"n","o","w">>,
    <<"o","f">>, <<"o","k">>, <<"o","k","a","y">>, <<"o","n">>, <<"o","r">>, <<"o","u","r">>,
    <<"p","l","e","a","s","e">>, <<"s","h","a","l","l">>, <<"s","h","e">>,
    <<"s","h","o","u","l","d">>, <<"s","i","n","c","e">>, <<"s","o","r","r","y">>,
    <<"t","h","a","n","k">>, <<"t","h","a","n","k","s">>, <<"t","h","a","t">>, <<"t","h","e">>,
    <<"t","h","e","i","r">>, <<"t","h","e","m">>, <<"t","h","e","n">>, <<"t","h","e","r","e">>,
    <<"t","h","e","s","e">>, <<"t","h","e","y">>, <<"t","h","i","s">>, <<"t","h","o","s","e">>,
    <<"t","h","o","u","g","h">>, <<"t","o">>, <<"t","o","d","a","y">>,
    <<"t","o","m","o","r","r","o","w">>, <<"u","n","l","e","s","s">>, <<"u","n","t","i","l">>,
    <<"u","s">>, <<"w","a","s">>, <<"w","e">>, <<"w","h","a","t">>,
    <<"w","h","a","t","e","v","e","r">>, <<"w","h","e","n">>,
    <<"w","h","e","n","e","v","e","r">>, <<"w","h","e","r","e">>,
    <<"w","h","e","r","e","v","e","r">>, <<"w","h","e","t","h","e","r">>,
    <<"w","h","i","c","h">>, <<"w","h","i","c","h","e","v","e","r">>, <<"w","h","i","l","e">>,
    <<"w","h","o">>, <<"w","h","o","e","v","e","r">>, <<"w","h","o","m">>,
    <<"w","h","o","s","e">>, <<"w","h","y">>, <<"w","i","l","l">>, <<"w","i","t","h">>,
    <<"w","o","u","l","d">>, <<"y","e","s">>, <<"y","e","s","t","e","r","d","a","y">>,
    <<"y","o","u">>, <<"y","o","u","r">>
  }

(***************************************************************************)
(* _count_scripts and _compute_ratios                                      *)
(***************************************************************************)
\* CountScripts with total_chars counting the word characters only
CountScriptsWordTotal(s) ==
  [latin_count      |-> Cardinality({i \in 1..Len(s) : IsLatin(s[i])}),
   devanagari_count |-> Cardinality({i \in 1..Len(s) : IsDevanagari(s[i])}),
   total_chars      |-> Cardinality({i \in 1..Len(s) : IsWord(s[i])})]

CountScripts(s) ==
  [latin_count      |-> Cardinality({i \in 1..Len(s) : IsLatin(s[i])}),
   devanagari_count |-> Cardinality({i \in 1..Len(s) : IsDevanagari(s[i])}),
   total_chars      |-> Cardinality({i \in 1..Len(s) : ~IsSpace(s[i])})]

ComputeRatios(char_counts) ==
  LET total == char_counts.total_chars IN
  IF total = 0
  THEN [latin_ratio |-> Frac(0, 1), devanagari_ratio |-> Frac(0, 1)]
  ELSE [latin_ratio      |-> Frac(char_counts.latin_count, total),
        devanagari_ratio |-> Frac(char_counts.devanagari_count, total)]

(***************************************************************************)
(* _analyze_tokens: re.findall(r'\b\w+\b', text.lower()) yields the        *)
(* maximal runs of word characters, in order.                              *)
(***************************************************************************)
RECURSIVE ScanTokens(_, _, _, _)
ScanTokens(s, i, cur, acc) ==
  IF i > Len(s)
  THEN IF cur = <<>> THEN acc ELSE Append(acc, cur)
  ELSE IF IsWord(s[i])
       THEN ScanTokens(s, i + 1, Append(cur, s[i]), acc)
       ELSE ScanTokens(s, i + 1, <<>>,
                       IF cur = <<>> THEN acc ELSE Append(acc, cur))

FindWordTokens(s) == ScanTokens(s, 1, <<>>, <<>>)

\* self.alphanumeric.match(t), ^[a-zA-Z0-9]+$ on a non-empty token
IsAlnumToken(t) == \A i \in 1..Len(t) : IsAsciiAlnum(t[i])

AnalyzeTokens(s) ==
  LET tokens       == FindWordTokens(Lower(s))
      clean_tokens == SelectSeq(tokens, IsAlnumToken)
      hindi_hits   == Cardinality({i \in 1..Len(clean_tokens) :
                                     clean_tokens[i] \in hindi_words})
      english_hits == Cardinality({i \in 1..Len(clean_tokens) :
                                     clean_tokens[i] \in english_words})
  IN [total_tokens     |-> Len(tokens),
      alnum_tokens     |-> Len(clean_tokens),
      hi_lexicon_hits  |-> hindi_hits,
      en_stopword_hits |-> english_hits,
      tokens           |-> tokens]

(***************************************************************************)
(* _check_noise                                                            *)
(***************************************************************************)
\* Strip without the stripping
StripNothing(s) == s

\* str.strip(): drop the leading and the trailing whitespace
Strip(s) ==
  LET keep == {i \in 1..Len(s) : ~IsSpace(s[i])} IN
  IF keep = {} THEN <<>>
  ELSE LET first == CHOOSE i \in keep : \A j \in keep : i <= j
           last  == CHOOSE i \in keep : \A j \in keep : i >= j
       IN SubSeq(s, first, last)

\* self.emojis.fullmatch: the pattern is one character class, no quantifier
EmojiFullMatch(s) == Len(s) = 1 /\ IsEmoji(s[1])

\* self.numeric_only.fullmatch: ^[\d\s\-\+\.\,\%]+$
NumericFullMatch(s) == Len(s) >= 1 /\ \A i \in 1..Len(s) : IsNumericChar(s[i])

\* VeryShort with the limit at 4 characters
VeryShortBelowFour(s) == Len(s) < 4

VeryShort(s) == Len(s) < 3

CheckNoise(s) ==
  LET stripped == Strip(s) IN
  [emoji_only   |-> EmojiFullMatch(stripped),
   numeric_only |-> NumericFullMatch(stripped),
   very_short   |-> VeryShort(stripped)]

(***************************************************************************)
(* _decide_script                                                          *)
(***************************************************************************)
\* DecideScript deciding on the two ratios alone
DecideScriptByRatio(char_counts, ratios) ==
  LET has_latin_mix == GtPct(ratios.latin_ratio, 10)
      has_dev_mix   == GtPct(ratios.devanagari_ratio, 10)
  IN IF char_counts.total_chars = 0 THEN "other"
     ELSE IF has_latin_mix /\ has_dev_mix THEN "mixed"
     ELSE IF has_latin_mix THEN "latin"
     ELSE IF has_dev_mix THEN "devanagari"
     ELSE "other"

DecideScript(char_counts, ratios) ==
  LET total           == char_counts.total_chars
      meaningful      == 10
      has_latin_mix   == GtPct(ratios.latin_ratio, meaningful)
      has_dev_mix     == GtPct(ratios.devanagari_ratio, meaningful)
      has_latin_chars == char_counts.latin_count > 0
      has_dev_chars   == char_counts.devanagari_count > 0
  IN IF total = 0 THEN "other"
     ELSE IF has_latin_mix /\ has_dev_mix THEN "mixed"
     ELSE IF has_latin_mix \/ has_latin_chars
          THEN (IF has_dev_chars THEN "mixed" ELSE "latin")
     ELSE IF has_dev_mix \/ has_dev_chars
          THEN (IF has_latin_chars THEN "mixed" ELSE "devanagari")
     ELSE "other"

(***************************************************************************)
(* _decide_language                                                        *)
(***************************************************************************)
\* DevanagariLanguage with the length check made strict
DevanagariLanguageStrict(total_chars) ==
  IF total_chars > 5 THEN "hi" ELSE "unknown"

\* the branch script == 'devanagari'
DevanagariLanguage(total_chars) ==
  IF total_chars >= 5 THEN "hi" ELSE "unknown"

\* LatinLanguage whose rule 4 returns mixed without the inner test of
\* english_ratio
LatinLanguageRule4Unnested(clean_tokens, hindi_hits, english_hits, total_chars) ==
  LET hindi_ratio     == Frac(hindi_hits, Max(clean_tokens, 1))
      english_ratio   == Frac(english_hits, Max(clean_tokens, 1))
      non_hindi       == clean_tokens - hindi_hits
      non_hindi_score == Frac(non_hindi, Max(clean_tokens, 1))
      strong_hindi_presence ==
        (hindi_hits > 3 * english_hits) /\ GtPct(hindi_ratio, 30)
  IN IF strong_hindi_presence THEN "hinglish"
     ELSE IF FloatGt(FloatOf(english_ratio), FloatTriple(hindi_ratio))
             /\ GtPct(english_ratio, 30) THEN "en"
     ELSE IF hindi_hits >= 1 /\ english_hits >= 1
             /\ GePct(english_ratio, 15) /\ GePct(hindi_ratio, 15)
          THEN "mixed"
     ELSE IF GePct(hindi_ratio, 20) /\ LePct(hindi_ratio, 70)
             /\ GePct(non_hindi_score, 20) /\ clean_tokens >= 4
          THEN "mixed"
     ELSE IF GtPct(hindi_ratio, 20)
          THEN (IF GtPct(english_ratio, 10) THEN "mixed" ELSE "hinglish")
     ELSE IF GtPct(english_ratio, 15)
          THEN (IF GtPct(hindi_ratio, 5) THEN "mixed" ELSE "en")
     ELSE IF GtPct(hindi_ratio, 5)
          THEN (IF GtPct(english_ratio, 5) THEN "mixed" ELSE "hinglish")
     ELSE IF total_chars >= 10 THEN "en" ELSE "unknown"

\* LatinLanguage with the two outcomes of rule 5 exchanged
LatinLanguageRule5Swapped(clean_tokens, hindi_hits, english_hits, total_chars) ==
  LET hindi_ratio     == Frac(hindi_hits, Max(clean_tokens, 1))
      english_ratio   == Frac(english_hits, Max(clean_tokens, 1))
      non_hindi       == clean_tokens - hindi_hits
      non_hindi_score == Frac(non_hindi, Max(clean_tokens, 1))
      strong_hindi_presence ==
        (hindi_hits > 3 * english_hits) /\ GtPct(hindi_ratio, 30)
  IN IF strong_hindi_presence THEN "hinglish"
     ELSE IF FloatGt(FloatOf(english_ratio), FloatTriple(hindi_ratio))
             /\ GtPct(english_ratio, 30) THEN "en"
     ELSE IF hindi_hits >= 1 /\ english_hits >= 1
             /\ GePct(english_ratio, 15) /\ GePct(hindi_ratio, 15)
          THEN "mixed"
     ELSE IF GePct(hindi_ratio, 20) /\ LePct(hindi_ratio, 70)
             /\ GePct(non_hindi_score, 20) /\ clean_tokens >= 4
             /\ GtPct(english_ratio, 10)
          THEN "mixed"
     ELSE IF GtPct(hindi_ratio, 20)
          THEN (IF GtPct(english_ratio, 10) THEN "hinglish" ELSE "mixed")
     ELSE IF GtPct(english_ratio, 15)
          THEN (IF GtPct(hindi_ratio, 5) THEN "mixed" ELSE "en")
     ELSE IF GtPct(hindi_ratio, 5)
          THEN (IF GtPct(english_ratio, 5) THEN "mixed" ELSE "hinglish")
     ELSE IF total_chars >= 10 THEN "en" ELSE "unknown"

\* the branch script == 'latin'
LatinLanguage(clean_tokens, hindi_hits, english_hits, total_chars) ==
  LET hindi_ratio     == Frac(hindi_hits, Max(clean_tokens, 1))
      english_ratio   == Frac(english_hits, Max(clean_tokens, 1))
      non_hindi       == clean_tokens - hindi_hits
      non_hindi_score == Frac(non_hindi, Max(clean_tokens, 1))
      strong_hindi_presence ==
        (hindi_hits > 3 * english_hits) /\ GtPct(hindi_ratio, 30)
  IN IF strong_hindi_presence THEN "hinglish"
     ELSE IF FloatGt(FloatOf(english_ratio), FloatTriple(hindi_ratio))
             /\ GtPct(english_ratio, 30) THEN "en"
     ELSE IF hindi_hits >= 1 /\ english_hits >= 1
             /\ GePct(english_ratio, 15) /\ GePct(hindi_ratio, 15)
          THEN "mixed"
     ELSE IF GePct(hindi_ratio, 20) /\ LePct(hindi_ratio, 70)
             /\ GePct(non_hindi_score, 20) /\ clean_tokens >= 4
             /\ GtPct(english_ratio, 10)
          THEN "mixed"
     ELSE IF GtPct(hindi_ratio, 20)
          THEN (IF GtPct(english_ratio, 10) THEN "mixed" ELSE "hinglish")
     ELSE IF GtPct(english_ratio, 15)
          THEN (IF GtPct(hindi_ratio, 5) THEN "mixed" ELSE "en")
     ELSE IF GtPct(hindi_ratio, 5)
          THEN (IF GtPct(english_ratio, 5) THEN "mixed" ELSE "hinglish")
     ELSE IF total_chars >= 10 THEN "en" ELSE "unknown"

\* MixedLanguage with an else arm that falls back to unknown
MixedLanguageByRatio(clean_tokens, hindi_hits, english_hits) ==
  LET hindi_ratio   == Frac(hindi_hits, Max(clean_tokens, 1))
      english_ratio == Frac(english_hits, Max(clean_tokens, 1))
  IN IF GtPct(hindi_ratio, 10) /\ GtPct(english_ratio, 10)
     THEN "mixed" ELSE "unknown"

\* the branch script == 'mixed'; both arms return 'mixed'
MixedLanguage(clean_tokens, hindi_hits, english_hits) ==
  LET hindi_ratio   == Frac(hindi_hits, Max(clean_tokens, 1))
      english_ratio == Frac(english_hits, Max(clean_tokens, 1))
  IN IF GtPct(hindi_ratio, 10) /\ GtPct(english_ratio, 10)
     THEN "mixed" ELSE "mixed"

\* DecideLanguage without the total_tokens == 0 half of the precondition
DecideLanguageNoTokenCheck(char_counts, ratios, token_stats, script) ==
  LET total_chars  == char_counts.total_chars
      clean_tokens == token_stats.alnum_tokens
      hindi_hits   == token_stats.hi_lexicon_hits
      english_hits == token_stats.en_stopword_hits
  IN IF total_chars < 3 THEN "unknown"
     ELSE IF script = "devanagari" THEN DevanagariLanguage(total_chars)
     ELSE IF script = "latin"
          THEN LatinLanguage(clean_tokens, hindi_hits, english_hits, total_chars)
     ELSE IF script = "mixed"
          THEN MixedLanguage(clean_tokens, hindi_hits, english_hits)
     ELSE "unknown"

\* DecideLanguage applying the Latin rules to every remaining script
DecideLanguageLatinByDefault(char_counts, ratios, token_stats, script) ==
  LET total_chars  == char_counts.total_chars
      total_tokens == token_stats.total_tokens
      clean_tokens == token_stats.alnum_tokens
      hindi_hits   == token_stats.hi_lexicon_hits
      english_hits == token_stats.en_stopword_hits
  IN IF total_chars < 3 \/ total_tokens = 0 THEN "unknown"
     ELSE IF script = "devanagari" THEN DevanagariLanguage(total_chars)
     ELSE IF script = "mixed"
          THEN MixedLanguage(clean_tokens, hindi_hits, english_hits)
     ELSE LatinLanguage(clean_tokens, hindi_hits, english_hits, total_chars)

DecideLanguage(char_counts, ratios, token_stats, script) ==
  LET total_chars  == char_counts.total_chars
      total_tokens == token_stats.total_tokens
      clean_tokens == token_stats.alnum_tokens
      hindi_hits   == token_stats.hi_lexicon_hits
      english_hits == token_stats.en_stopword_hits
  IN IF total_chars < 3 \/ total_tokens = 0 THEN "unknown"
     ELSE IF script = "devanagari" THEN DevanagariLanguage(total_chars)
     ELSE IF script = "latin"
          THEN LatinLanguage(clean_tokens, hindi_hits, english_hits, total_chars)
     ELSE IF script = "mixed"
          THEN MixedLanguage(clean_tokens, hindi_hits, english_hits)
     ELSE "unknown"

(***************************************************************************)
(* _compute_confidence, in hundredths.  Each operator is one block of the  *)
(* method, in the order the method runs them.                              *)
(***************************************************************************)
\* UnknownConfidence testing very_short before the other two flags
UnknownConfidenceShortFirst(noise) ==
  IF noise.very_short THEN 10
  ELSE IF noise.emoji_only \/ noise.numeric_only THEN 0
  ELSE 20

\* the early return for language == 'unknown'
UnknownConfidence(noise) ==
  IF noise.emoji_only \/ noise.numeric_only THEN 0
  ELSE IF noise.very_short THEN 10
  ELSE 20

LengthBonus(total_chars) ==
  IF total_chars >= 20 THEN 20
  ELSE IF total_chars >= 10 THEN 10
  ELSE 0

DominanceBonus(ratios) ==
  LET dominance == FracMax(ratios.latin_ratio, ratios.devanagari_ratio) IN
  IF GtPct(dominance, 80) THEN 10 ELSE 0

LexiconBonus(token_stats, language) ==
  LET clean_tokens == token_stats.alnum_tokens IN
  IF clean_tokens > 0
  THEN LET hindi_ratio   == Frac(token_stats.hi_lexicon_hits, clean_tokens)
           english_ratio == Frac(token_stats.en_stopword_hits, clean_tokens)
       IN IF language = "hinglish"
          THEN (IF GtPct(hindi_ratio, 40) THEN 30
                ELSE IF GtPct(hindi_ratio, 20) THEN 15 ELSE 0)
          ELSE IF language = "en"
          THEN (IF GtPct(english_ratio, 30) THEN 20
                ELSE IF GtPct(english_ratio, 15) THEN 10 ELSE 0)
          ELSE IF language = "hi"
          THEN (IF GtPct(hindi_ratio, 10) THEN 15 ELSE 0)
          ELSE IF language = "mixed"
          THEN (IF GtPct(hindi_ratio, 30) /\ GtPct(english_ratio, 30)
                THEN 5 ELSE 0)
          ELSE 0
  ELSE 0

\* NoisePenalty with the two penalties made alternatives
NoisePenaltyExclusive(noise) ==
  IF noise.very_short THEN 30
  ELSE IF noise.emoji_only \/ noise.numeric_only THEN 40
  ELSE 0

NoisePenalty(noise) ==
  (IF noise.very_short THEN 30 ELSE 0)
  + (IF noise.emoji_only \/ noise.numeric_only THEN 40 ELSE 0)

HinglishClamp(score, language, total_tokens) ==
  IF language = "hinglish" /\ total_tokens < 6 THEN Min(85, score) ELSE score

ScriptBonus(script, language) ==
  IF script \in {"latin", "devanagari"} /\ language \in {"en", "hi", "hinglish"}
  THEN 10 ELSE 0

TokenPenalty(total_tokens) ==
  IF total_tokens < 4 THEN 15
  ELSE IF total_tokens < 6 THEN 5
  ELSE 0

\* FinalShaping without the upper caps
FinalShapingNoCap(score, language) ==
  LET shaped == IF language = "mixed" THEN score - 10 ELSE score
  IN Max(0, shaped)

FinalShaping(score, language) ==
  LET capped == IF language = "mixed" THEN Min(85, score - 10)
                ELSE Min(95, score)
  IN Max(0, capped)

\* ComputeConfidence with the hinglish clamp moved after the script bonus
\* and the token penalty
ComputeConfidenceClampLate(char_counts, ratios, token_stats, script, language, noise) ==
  LET total_chars  == char_counts.total_chars
      total_tokens == token_stats.total_tokens
  IN IF language = "unknown" THEN UnknownConfidence(noise)
     ELSE LET s1 == 30 + LengthBonus(total_chars)
              s2 == s1 + DominanceBonus(ratios)
              s3 == s2 + LexiconBonus(token_stats, language)
              s4 == s3 - NoisePenalty(noise)
              s5 == s4 + ScriptBonus(script, language)
              s6 == s5 - TokenPenalty(total_tokens)
              s7 == HinglishClamp(s6, language, total_tokens)
          IN FinalShaping(s7, language)

ComputeConfidence(char_counts, ratios, token_stats, script, language, noise) ==
  LET total_chars  == char_counts.total_chars
      total_tokens == token_stats.total_tokens
  IN IF language = "unknown" THEN UnknownConfidence(noise)
     ELSE LET s1 == 30 + LengthBonus(total_chars)
              s2 == s1 + DominanceBonus(ratios)
              s3 == s2 + LexiconBonus(token_stats, language)
              s4 == s3 - NoisePenalty(noise)
              s5 == HinglishClamp(s4, language, total_tokens)
              s6 == s5 + ScriptBonus(script, language)
              s7 == s6 - TokenPenalty(total_tokens)
          IN FinalShaping(s7, language)

(***************************************************************************)
(* _gather_evidence and detect                                             *)
(***************************************************************************)
\* GatherEvidence dividing by alnum_tokens without the zero test
GatherEvidenceUnguarded(char_counts, ratios, token_stats) ==
  LET clean_tokens == token_stats.alnum_tokens IN
  [latin_ratio       |-> ratios.latin_ratio,
   devanagari_ratio  |-> ratios.devanagari_ratio,
   hi_lexicon_hits   |-> token_stats.hi_lexicon_hits,
   en_stopword_hits  |-> token_stats.en_stopword_hits,
   n_tokens          |-> token_stats.total_tokens,
   n_alnum_tokens    |-> clean_tokens,
   hi_lexicon_ratio  |-> Frac(token_stats.hi_lexicon_hits, clean_tokens),
   en_stopword_ratio |-> Frac(token_stats.en_stopword_hits, clean_tokens)]

GatherEvidence(char_counts, ratios, token_stats) ==
  LET clean_tokens == token_stats.alnum_tokens IN
  [latin_ratio       |-> ratios.latin_ratio,
   devanagari_ratio  |-> ratios.devanagari_ratio,
   hi_lexicon_hits   |-> token_stats.hi_lexicon_hits,
   en_stopword_hits  |-> token_stats.en_stopword_hits,
   n_tokens          |-> token_stats.total_tokens,
   n_alnum_tokens    |-> clean_tokens,
   hi_lexicon_ratio  |-> IF clean_tokens > 0
                         THEN Frac(token_stats.hi_lexicon_hits, clean_tokens)
                         ELSE Frac(0, 1),
   en_stopword_ratio |-> IF clean_tokens > 0
                         THEN Frac(token_stats.en_stopword_hits, clean_tokens)
                         ELSE Frac(0, 1)]

Detect(text_id, s) ==
  LET chars      == CountScripts(s)
      ratios     == ComputeRatios(chars)
      tokens     == AnalyzeTokens(s)
      noise      == CheckNoise(s)
      script     == DecideScript(chars, ratios)
      lang       == DecideLanguage(chars, ratios, tokens, script)
      confidence == ComputeConfidence(chars, ratios, tokens, script, lang, noise)
      evidence   == GatherEvidence(chars, ratios, tokens)
  IN [id               |-> text_id,
      primary_language |-> lang,
      script           |-> script,
      confidence       |-> confidence,
      evidence         |-> evidence]

\* the first four statements of detect: the local variables chars, ratios,
\* tokens and noise
Analysis(s) ==
  [char_counts |-> CountScripts(s),
   ratios      |-> ComputeRatios(CountScripts(s)),
   token_stats |-> AnalyzeTokens(s),
   noise       |-> CheckNoise(s)]

\* the next four statements: script, lang, confidence and evidence, from the
\* local variables a
Outcome(a) ==
  LET script == DecideScript(a.char_counts, a.ratios)
      lang   == DecideLanguage(a.char_counts, a.ratios, a.token_stats, script)
  IN [primary_language |-> lang,
      script           |-> script,
      confidence       |-> ComputeConfidence(a.char_counts, a.ratios, a.token_stats,
                                             script, lang, a.noise),
      evidence         |-> GatherEvidence(a.char_counts, a.ratios, a.token_stats)]

\* the return statement: the DetectionResult of the call
DetectionResult(text_id, o) ==
  [id               |-> text_id,
   primary_language |-> o.primary_language,
   script           |-> o.script,
   confidence       |-> o.confidence,
   evidence         |-> o.evidence]

\* the decision and confidence stages of detect on the outputs of the
\* counting, token and noise stages
DetectStages(char_counts, token_stats, noise) ==
  LET ratios == ComputeRatios(char_counts)
      script == DecideScript(char_counts, ratios)
      lang   == DecideLanguage(char_counts, ratios, token_stats, script)
  IN [script           |-> script,
      primary_language |-> lang,
      confidence       |-> ComputeConfidence(char_counts, ratios, token_stats,
                                             script, lang, noise)]

(***************************************************************************)
(* Inputs.                                                                 *)
(***************************************************************************)
Ids == {"t1", "t2"}

\* one or two characters of each class the code distinguishes
Alphabet == {"a", "n", "A", " ", "1", "-", "!", "_",
             "U+0915", "U+093E", "U+0967", "U+1F600", "U+0663"}

CharTexts == UNION {[1..n -> Alphabet] : n \in 0..MaxLen}

\* words: English, in both lexicons, Hindi, Hindi, English (capitalised),
\* in no lexicon, Devanagari letters with a vowel sign, Devanagari digits,
\* ASCII digits, an emoji
Vocabulary ==
  << <<"a">>,
     <<"h","i">>,
     <<"h","a","i">>,
     <<"m","u","j","h","e">>,
     <<"T","o","d","a","y">>,
     <<"k","h","u","s","h","i">>,
     <<"U+0928","U+093E","U+092E">>,
     <<"U+0967","U+0968","U+0969","U+096A","U+096B">>,
     <<"1","2">>,
     <<"U+1F600">> >>

\* the index sequences of length n, in non-decreasing order, from lo up
RECURSIVE WordChoices(_, _)
WordChoices(n, lo) ==
  IF n = 0 THEN {<<>>}
  ELSE UNION {{<<i>> \o t : t \in WordChoices(n - 1, i)} :
              i \in lo..Len(Vocabulary)}

\* the words separated by one space
RECURSIVE JoinWords(_)
JoinWords(ws) ==
  IF ws = <<>> THEN <<>>
  ELSE IF Len(ws) = 1 THEN Vocabulary[ws[1]]
  ELSE Vocabulary[ws[1]] \o <<" ">> \o JoinWords(Tail(ws))

WordTexts == {JoinWords(ws) : ws \in UNION {WordChoices(n, 1) : n \in 0..MaxWords}}

Texts == CharTexts \cup WordTexts

\* arguments of direct calls: char_counts, and token_stats without the
\* token list, which the decision functions do not read
FnCharCounts ==
  {c \in [latin_count : 0..MaxChars, devanagari_count : 0..MaxChars,
          total_chars : 0..MaxChars] :
     c.latin_count + c.devanagari_count <= c.total_chars}

LangCharCounts ==
  {c \in FnCharCounts : c.latin_count <= 1 /\ c.devanagari_count <= 1}

FnTokenStats ==
  {t \in [total_tokens : 0..MaxTokens, alnum_tokens : 0..MaxTokens,
          hi_lexicon_hits : 0..MaxTokens, en_stopword_hits : 0..MaxTokens] :
     /\ t.alnum_tokens <= t.total_tokens
     /\ t.hi_lexicon_hits <= t.alnum_tokens
     /\ t.en_stopword_hits <= t.alnum_tokens}

\* arguments of direct calls of the Latin branch: texts of Latin letters
\* only, and at most one token that is not alphanumeric (the branch reads
\* total_tokens in the test against 0 only)
LatinCharCounts ==
  {c \in FnCharCounts :
     c.devanagari_count = 0 /\ c.latin_count = c.total_chars /\ c.total_chars >= 1}

LatinTokenStats ==
  {t \in [total_tokens : 0..MaxLatinTokens, alnum_tokens : 0..MaxLatinTokens,
          hi_lexicon_hits : 0..MaxLatinTokens, en_stopword_hits : 0..MaxLatinTokens] :
     /\ t.total_tokens \in {t.alnum_tokens, t.alnum_tokens + 1}
     /\ t.hi_lexicon_hits <= t.alnum_tokens
     /\ t.en_stopword_hits <= t.alnum_tokens}

\* arguments of direct calls of _compute_confidence: no letter of a script,
\* one, or all characters of it
ConfCharCounts ==
  {c \in FnCharCounts :
     /\ c.latin_count \in {0, 1, c.total_chars}
     /\ c.devanagari_count \in {0, 1, c.total_chars}}

ConfTokenStats ==
  {t \in FnTokenStats : t.total_tokens <= MaxConfTokens}

NoiseFlags == [emoji_only : BOOLEAN, numeric_only : BOOLEAN, very_short : BOOLEAN]

\* detector instances, and the texts of the calls: a Hindi word, and an
\* English word followed by a word of neither lexicon
Detectors == {"d1", "d2"}

\* the threads that call detect
Callers == {"c1", "c2"}

\* where the local variables of a call of detect by a caller on a detector
\* live: in the frame of the call
LocalsOnInstance(caller, detector) == detector

LocalsOwner(caller, detector) == caller

\* a caller that executes no call, and local variables not yet assigned
IdleFrame == [stage |-> "idle", detector |-> "", id |-> "", text |-> <<>>]
UnsetLocals == [analysis |-> <<>>, outcome |-> <<>>]

CallTexts == { <<"n","a">>, <<"a","n"," ","n","n","n">> }

(***************************************************************************)
(* Specification of detect on a text.                                      *)
(***************************************************************************)
\* the class body: the lexicons as written, no call made yet
ClassInit ==
  /\ hindi_words = HINDI_WORDS
  /\ english_words = ENGLISH_WORDS
  /\ log = <<>>
  /\ frames = [c \in Callers |-> IdleFrame]
  /\ locals = [k \in Callers \cup Detectors |-> UnsetLocals]

\* no run of process_file or main
NoRun ==
  /\ args = [entry |-> "none", validate_only |-> FALSE, stats |-> FALSE]
  /\ lines = <<>>
  /\ line_no = 0
  /\ out = <<>>
  /\ stats_results = <<>>
  /\ exit_code = -1

Init ==
  /\ pc = "ready"
  /\ text \in Texts
  /\ result = <<>>
  /\ call = <<>>
  /\ ClassInit
  /\ NoRun

DetectText ==
  /\ pc = "ready"
  /\ \E text_id \in Ids : result' = <<Detect(text_id, text)>>
  /\ pc' = "done"
  /\ UNCHANGED <<text, call, classVars, callVars, fileVars>>

Next == DetectText

Spec == Init /\ [][Next]_vars

(***************************************************************************)
(* Specification of direct calls of the decision functions.                *)
(***************************************************************************)
InitFn ==
  /\ pc = "idle"
  /\ text = <<>>
  /\ result = <<>>
  /\ call = <<>>
  /\ ClassInit
  /\ NoRun

CallDecideScript ==
  /\ pc = "idle"
  /\ \E c \in FnCharCounts :
       call' = <<[fn          |-> "_decide_script",
                  char_counts |-> c,
                  ratios      |-> ComputeRatios(c),
                  value       |-> DecideScript(c, ComputeRatios(c))]>>
  /\ pc' = "called"
  /\ UNCHANGED <<detectVars, classVars, callVars, fileVars>>

CallDecideLanguage ==
  /\ pc = "idle"
  /\ \E c \in LangCharCounts, t \in FnTokenStats :
       /\ t.total_tokens <= c.total_chars
       /\ LET r == ComputeRatios(c)
              s == DecideScript(c, r)
          IN call' = <<[fn          |-> "_decide_language",
                        char_counts |-> c,
                        ratios      |-> r,
                        token_stats |-> t,
                        script      |-> s,
                        value       |-> DecideLanguage(c, r, t, s)]>>
  /\ pc' = "called"
  /\ UNCHANGED <<detectVars, classVars, callVars, fileVars>>

Return ==
  /\ pc = "called"
  /\ pc' = "idle"
  /\ call' = <<>>
  /\ UNCHANGED <<detectVars, classVars, callVars, fileVars>>

NextFn == CallDecideScript \/ CallDecideLanguage \/ Return

SpecFn == InitFn /\ [][NextFn]_vars


(***************************************************************************)
(* Specification of direct calls of _decide_language for Latin script,     *)
(* with up to MaxLatinTokens tokens.                                       *)
(***************************************************************************)
CallDecideLanguageLatin ==
  /\ pc = "idle"
  /\ \E c \in LatinCharCounts, t \in LatinTokenStats :
       /\ t.total_tokens <= c.total_chars
       /\ LET r == ComputeRatios(c)
              s == DecideScript(c, r)
          IN call' = <<[fn          |-> "_decide_language",
                        char_counts |-> c,
                        ratios      |-> r,
                        token_stats |-> t,
                        script      |-> s,
                        value       |-> DecideLanguage(c, r, t, s)]>>
  /\ pc' = "called"
  /\ UNCHANGED <<detectVars, classVars, callVars, fileVars>>

NextLatin == CallDecideLanguageLatin \/ Return

SpecLatin == InitFn /\ [][NextLatin]_vars

(***************************************************************************)
(* Specification of direct calls of _compute_confidence, with the script   *)
(* and the language that detect passes for the counts, and any noise flags.*)
(***************************************************************************)
CallComputeConfidence ==
  /\ pc = "idle"
  /\ \E c \in ConfCharCounts, t \in ConfTokenStats, n \in NoiseFlags :
       /\ t.total_tokens <= c.total_chars
       /\ LET r == ComputeRatios(c)
              d == DetectStages(c, t, n)
          IN call' = <<[fn          |-> "_compute_confidence",
                        char_counts |-> c,
                        ratios      |-> r,
                        token_stats |-> t,
                        script      |-> d.script,
                        language    |-> d.primary_language,
                        noise       |-> n,
                        value       |-> d.confidence]>>
  /\ pc' = "called"
  /\ UNCHANGED <<detectVars, classVars, callVars, fileVars>>

NextConf == CallComputeConfidence \/ Return

SpecConf == InitFn /\ [][NextConf]_vars

(***************************************************************************)
(* Specification of detect calls by concurrent callers on detector         *)
(* instances.  The instances share the class attributes; an instance holds *)
(* only its compiled patterns, which no method assigns.  A call runs in    *)
(* three steps, which the steps of the other caller may separate: the      *)
(* statements that read the text, the statements that decide, the return.  *)
(***************************************************************************)
InitCalls ==
  /\ pc = "serving"
  /\ text = <<>>
  /\ result = <<>>
  /\ call = <<>>
  /\ ClassInit
  /\ NoRun

\* the calls in progress
InProgress == {c \in Callers : frames[c].stage # "idle"}

\* a caller enters detect(text_id, s) on a detector
CallDetect(c) ==
  /\ pc = "serving"
  /\ frames[c].stage = "idle"
  /\ Len(log) + Cardinality(InProgress) < MaxCalls
  /\ \E d \in Detectors, text_id \in Ids, s \in CallTexts :
       frames' = [frames EXCEPT ![c] = [stage |-> "called", detector |-> d,
                                        id |-> text_id, text |-> s]]
  /\ UNCHANGED <<pc, detectVars, call, classVars, log, locals, fileVars>>

\* chars, ratios, tokens and noise are assigned; the lexicons are read
StepAnalyze(c) ==
  /\ pc = "serving"
  /\ frames[c].stage = "called"
  /\ locals' = [locals EXCEPT ![LocalsOwner(c, frames[c].detector)].analysis =
                                <<Analysis(frames[c].text)>>]
  /\ frames' = [frames EXCEPT ![c].stage = "analyzed"]
  /\ UNCHANGED <<pc, detectVars, call, classVars, log, fileVars>>

\* script, lang, confidence and evidence are assigned from the local
\* variables
StepDecide(c) ==
  /\ pc = "serving"
  /\ frames[c].stage = "analyzed"
  /\ LET own == locals[LocalsOwner(c, frames[c].detector)] IN
     /\ Len(own.analysis) = 1
     /\ locals' = [locals EXCEPT ![LocalsOwner(c, frames[c].detector)].outcome =
                                   <<Outcome(own.analysis[1])>>]
  /\ frames' = [frames EXCEPT ![c].stage = "decided"]
  /\ UNCHANGED <<pc, detectVars, call, classVars, log, fileVars>>

\* the DetectionResult is returned and the frame of the call is gone
ReturnDetect(c) ==
  /\ pc = "serving"
  /\ frames[c].stage = "decided"
  /\ LET own == locals[LocalsOwner(c, frames[c].detector)] IN
     /\ Len(own.outcome) = 1
     /\ log' = Append(log, [detector   |-> frames[c].detector,
                            id         |-> frames[c].id,
                            text       |-> frames[c].text,
                            concurrent |-> InProgress # {c},
                            result     |-> DetectionResult(frames[c].id,
                                                           own.outcome[1])])
  /\ locals' = [locals EXCEPT ![LocalsOwner(c, frames[c].detector)] = UnsetLocals]
  /\ frames' = [frames EXCEPT ![c] = IdleFrame]
  /\ UNCHANGED <<pc, detectVars, call, classVars, fileVars>>

NextCalls ==
  \E c \in Callers :
    CallDetect(c) \/ StepAnalyze(c) \/ StepDecide(c) \/ ReturnDetect(c)

SpecCalls == InitCalls /\ [][NextCalls]_vars

(***************************************************************************)
(* process_file (src/detector.py) and main (src/lang_detect.py).           *)
(*                                                                         *)
(* An input line is a record: raw is "blank" (empty after strip),          *)
(* "garbage" (json.loads raises JSONDecodeError), "array" (valid JSON that *)
(* is not an object) or "object"; an object has or lacks the members id    *)
(* and text, and its text is a string (text_is_str, the characters in      *)
(* text) or another JSON value.                                            *)
(***************************************************************************)
\* the default of validate_jsonl_format's parameter sample_size
SampleSize == 5

Line(raw, has_id, id, has_text, text_is_str, chars) ==
  [raw |-> raw, has_id |-> has_id, id |-> id, has_text |-> has_text,
   text_is_str |-> text_is_str, text |-> chars]

BlankLine   == Line("blank", FALSE, "", FALSE, TRUE, <<>>)
GarbageLine == Line("garbage", FALSE, "", FALSE, TRUE, <<>>)
ArrayLine   == Line("array", FALSE, "", FALSE, TRUE, <<>>)
ObjectLines ==
  {Line("object", FALSE, "", FALSE, TRUE, <<>>),
   Line("object", FALSE, "", TRUE, TRUE, <<"n","a">>),
   Line("object", FALSE, "", TRUE, FALSE, <<>>),
   Line("object", TRUE, "t1", FALSE, TRUE, <<>>),
   Line("object", TRUE, "t1", TRUE, TRUE, <<"n","a">>),
   Line("object", TRUE, "t1", TRUE, FALSE, <<>>)}

FileLineKinds == {BlankLine, GarbageLine, ArrayLine} \cup ObjectLines

CliLineKinds ==
  {BlankLine, GarbageLine, ArrayLine,
   Line("object", TRUE, "t1", FALSE, TRUE, <<>>),
   Line("object", TRUE, "t1", TRUE, TRUE, <<"n","a">>)}

FileContents == UNION {[1..n -> FileLineKinds] : n \in 0..MaxLines}
CliContents  == UNION {[1..n -> CliLineKinds] : n \in 0..MaxCliLines}

\* f'line_{i}'
LineIdSeq == <<"line_1", "line_2", "line_3", "line_4", "line_5",
               "line_6", "line_7", "line_8", "line_9", "line_10">>
LineId(i) == LineIdSeq[i]

\* line.strip() is empty
IsBlank(line) == line.raw = "blank"
\* json.loads(line) raises JSONDecodeError
JsonDecodeError(line) == line.raw = "garbage"
\* json.loads(line) is a dict
IsDict(line) == line.raw = "object"
\* data.get('id', f'line_{i}')
GetId(line, i) == IF line.has_id THEN line.id ELSE LineId(i)
\* data.get('text', '')
GetText(line) ==
  IF line.has_text THEN [is_str |-> line.text_is_str, chars |-> line.text]
  ELSE [is_str |-> TRUE, chars |-> <<>>]

\* one iteration of the loop of process_file on line number i: the records
\* it writes.  A line that is not an object raises AttributeError at
\* data.get, a text that is not a string raises TypeError inside detect;
\* `except Exception: continue' drops both.
LineOutput(line, i) ==
  IF IsBlank(line) THEN <<>>
  ELSE IF JsonDecodeError(line) THEN <<>>
  ELSE IF ~IsDict(line) THEN <<>>
  ELSE IF ~GetText(line).is_str THEN <<>>
  ELSE <<Detect(GetId(line, i), GetText(line).chars)>>

\* validate_jsonl_format: "ok", or "ValueError" for the first sample_size
\* lines holding a non-blank line that is not JSON, not a dict, or has no
\* 'text'
ValidateJsonl(ls, sample_size) ==
  IF \E i \in 1..Min(Len(ls), sample_size) :
       /\ ~IsBlank(ls[i])
       /\ \/ JsonDecodeError(ls[i])
          \/ ~IsDict(ls[i])
          \/ ~ls[i].has_text
  THEN "ValueError"
  ELSE "ok"

\* the loop of main for --stats: the results of the lines detect accepts
RECURSIVE CollectResults(_, _)
CollectResults(ls, i) ==
  IF i > Len(ls) THEN <<>>
  ELSE LineOutput(ls[i], i) \o CollectResults(ls, i + 1)

\* process_file called directly
InitFile ==
  /\ pc = "process_file"
  /\ text = <<>>
  /\ result = <<>>
  /\ call = <<>>
  /\ ClassInit
  /\ args = [entry |-> "process_file", validate_only |-> FALSE, stats |-> FALSE]
  /\ lines \in FileContents
  /\ line_no = 0
  /\ out = <<>>
  /\ stats_results = <<>>
  /\ exit_code = -1

\* one iteration of `for i, line in enumerate(infile, 1)'
ProcessLine ==
  /\ pc = "process_file"
  /\ line_no < Len(lines)
  /\ line_no' = line_no + 1
  /\ out' = out \o LineOutput(lines[line_no + 1], line_no + 1)
  /\ UNCHANGED <<pc, detectVars, call, classVars, callVars, args, lines,
                 stats_results, exit_code>>

\* the end of the input: the files are closed and process_file returns
ProcessEnd ==
  /\ pc = "process_file"
  /\ line_no = Len(lines)
  /\ pc' = "returned"
  /\ UNCHANGED <<detectVars, call, classVars, callVars, fileVars>>

NextFile == ProcessLine \/ ProcessEnd

SpecFile == InitFile /\ [][NextFile]_vars

\* main, started with its flags on a readable input file
InitCli ==
  /\ pc = "main"
  /\ text = <<>>
  /\ result = <<>>
  /\ call = <<>>
  /\ ClassInit
  /\ args \in [entry : {"main"}, validate_only : BOOLEAN, stats : BOOLEAN]
  /\ lines \in CliContents
  /\ line_no = 0
  /\ out = <<>>
  /\ stats_results = <<>>
  /\ exit_code = -1

\* validate_jsonl_format and --validate-only; a ValueError reaches the
\* `except Exception' of main, which exits with status 1
MainValidate ==
  /\ pc = "main"
  /\ IF ValidateJsonl(lines, SampleSize) = "ValueError"
     THEN pc' = "exited" /\ exit_code' = 1
     ELSE IF args.validate_only
     THEN pc' = "exited" /\ exit_code' = 0
     ELSE /\ pc' = (IF args.stats THEN "stats" ELSE "process_file")
          /\ exit_code' = exit_code
  /\ UNCHANGED <<detectVars, call, classVars, callVars, args, lines, line_no,
                 out, stats_results>>

\* the loop that collects the results for --stats
MainStats ==
  /\ pc = "stats"
  /\ stats_results' = CollectResults(lines, 1)
  /\ pc' = "process_file"
  /\ UNCHANGED <<detectVars, call, classVars, callVars, args, lines, line_no,
                 out, exit_code>>

\* process_file has returned to main, which returns: exit status 0
MainReturn ==
  /\ pc = "returned"
  /\ args.entry = "main"
  /\ pc' = "exited"
  /\ exit_code' = 0
  /\ UNCHANGED <<detectVars, call, classVars, callVars, args, lines, line_no,
                 out, stats_results>>

NextCli == MainValidate \/ MainStats \/ ProcessLine \/ ProcessEnd \/ MainReturn

SpecCli == InitCli /\ [][NextCli]_vars

(***************************************************************************)
(* Properties.                                                             *)
(***************************************************************************)
Returned == pc = "done"
Res      == result[1]
Called(f) == pc = "called" /\ call[1].fn = f

\* C1: for every input text the confidence returned by detect is at least
\* 0.0 and at most 0.95, and at most 0.85 when primary_language is mixed.
C1_ConfidenceBounds ==
  Returned =>
    /\ 0 <= Res.confidence
    /\ Res.confidence <= 95
    /\ (Res.primary_language = "mixed" => Res.confidence <= 85)

\* a result whose score was cut down to the 0.95 ceiling
C1_Witness ==
  /\ Returned
  /\ Res.confidence = 95
  /\ Res.primary_language = "hinglish"
  /\ Res.evidence.n_tokens >= 6

\* C2: for Latin script with total_chars >= 3 and total_tokens > 0,
\* _decide_language returns the outcome of the first matching rule of the
\* ordered rules 1-8, each threshold strict or non-strict as written, the
\* ratios and the product 3 * hindi_ratio of rule 2 being the exact ones.
C2_LatinRuleList ==
  (/\ Called("_decide_language")
   /\ call[1].script = "latin"
   /\ call[1].char_counts.total_chars >= 3
   /\ call[1].token_stats.total_tokens > 0)
  =>
  LET n   == call[1].token_stats.alnum_tokens
      hi  == call[1].token_stats.hi_lexicon_hits
      en  == call[1].token_stats.en_stopword_hits
      tc  == call[1].char_counts.total_chars
      d   == Max(n, 1)
      \* x/d > p/100, >= p/100, <= p/100
      gt(x, p) == 100 * x > p * d
      ge(x, p) == 100 * x >= p * d
      le(x, p) == 100 * x <= p * d
      rules ==
        << [when |-> hi > 3 * en /\ gt(hi, 30),
            then |-> "hinglish"],
           [when |-> en > 3 * hi /\ gt(en, 30),
            then |-> "en"],
           [when |-> hi >= 1 /\ en >= 1 /\ ge(en, 15) /\ ge(hi, 15),
            then |-> "mixed"],
           [when |-> ge(hi, 20) /\ le(hi, 70) /\ ge(n - hi, 20)
                     /\ n >= 4 /\ gt(en, 10),
            then |-> "mixed"],
           [when |-> gt(hi, 20),
            then |-> IF gt(en, 10) THEN "mixed" ELSE "hinglish"],
           [when |-> gt(en, 15),
            then |-> IF gt(hi, 5) THEN "mixed" ELSE "en"],
           [when |-> gt(hi, 5),
            then |-> IF gt(en, 5) THEN "mixed" ELSE "hinglish"],
           [when |-> TRUE,
            then |-> IF tc >= 10 THEN "en" ELSE "unknown"] >>
      first == CHOOSE i \in 1..8 :
                 rules[i].when /\ \A j \in 1..(i - 1) : ~rules[j].when
  IN call[1].value = rules[first].then

\* C3: for total_chars > 0 the script is mixed exactly when both counts are
\* positive, latin exactly when only latin_count is, devanagari exactly when
\* only devanagari_count is, other exactly when both are 0, whatever the
\* ratios are relative to 0.1.
C3_ScriptByPresence ==
  (Called("_decide_script") /\ call[1].char_counts.total_chars > 0)
  =>
  LET l == call[1].char_counts.latin_count
      d == call[1].char_counts.devanagari_count
      v == call[1].value
  IN /\ (v = "mixed")      <=> (l > 0 /\ d > 0)
     /\ (v = "latin")      <=> (l > 0 /\ d = 0)
     /\ (v = "devanagari") <=> (l = 0 /\ d > 0)
     /\ (v = "other")      <=> (l = 0 /\ d = 0)

\* one Latin character among Devanagari ones, below the 0.1 ratio
C3_Witness ==
  /\ Called("_decide_script")
  /\ call[1].char_counts.latin_count = 1
  /\ call[1].char_counts.devanagari_count = 19
  /\ call[1].char_counts.total_chars = 20
  /\ call[1].value = "mixed"

\* C4: for a language other than unknown the confidence is the base 0.3
\* with, in this order: the length bonus, the dominance bonus, the lexicon
\* bonus of the language (if alnum_tokens > 0), the noise penalties, the
\* clamp to 0.85 of hinglish with total_tokens < 6, the +0.1 for script
\* latin/devanagari with language en/hi/hinglish, the token-count penalty,
\* -0.1 and the cap 0.85 for mixed or the cap 0.95 otherwise, and the lower
\* clamp at 0.0.
C4_ConfidenceComputation ==
  (Called("_compute_confidence") /\ call[1].language # "unknown")
  =>
  LET cc    == call[1].char_counts
      ts    == call[1].token_stats
      nz    == call[1].noise
      lang  == call[1].language
      tc    == cc.total_chars
      n     == ts.alnum_tokens
      hi    == ts.hi_lexicon_hits
      en    == ts.en_stopword_hits
      tt    == ts.total_tokens
      big   == Max(cc.latin_count, cc.devanagari_count)
      a0    == 30
      a1    == a0 + (IF tc >= 20 THEN 20 ELSE IF tc >= 10 THEN 10 ELSE 0)
      a2    == a1 + (IF 100 * big > 80 * tc THEN 10 ELSE 0)
      bonus == CASE lang = "hinglish" ->
                      (IF 100 * hi > 40 * n THEN 30
                       ELSE IF 100 * hi > 20 * n THEN 15 ELSE 0)
                 [] lang = "en" ->
                      (IF 100 * en > 30 * n THEN 20
                       ELSE IF 100 * en > 15 * n THEN 10 ELSE 0)
                 [] lang = "hi" ->
                      (IF 100 * hi > 10 * n THEN 15 ELSE 0)
                 [] lang = "mixed" ->
                      (IF 100 * hi > 30 * n /\ 100 * en > 30 * n
                       THEN 5 ELSE 0)
      a3    == IF n > 0 THEN a2 + bonus ELSE a2
      a4    == a3 - (IF nz.very_short THEN 30 ELSE 0)
                  - (IF nz.emoji_only \/ nz.numeric_only THEN 40 ELSE 0)
      a5    == IF lang = "hinglish" /\ tt < 6 /\ a4 > 85 THEN 85 ELSE a4
      a6    == IF call[1].script \in {"latin", "devanagari"}
                  /\ lang \in {"en", "hi", "hinglish"}
               THEN a5 + 10 ELSE a5
      a7    == a6 - (IF tt < 4 THEN 15 ELSE IF tt < 6 THEN 5 ELSE 0)
      a8    == IF lang = "mixed"
               THEN (IF a7 - 10 > 85 THEN 85 ELSE a7 - 10)
               ELSE (IF a7 > 95 THEN 95 ELSE a7)
      a9    == IF a8 < 0 THEN 0 ELSE a8
  IN call[1].value = a9

\* a call for the language hi with Hindi lexicon hits, with very_short and
\* emoji_only both set: 0.3 + 0.2 + 0.1 + 0.15 - 0.3 - 0.4 + 0.1 = 0.15
C4_Witness ==
  /\ Called("_compute_confidence")
  /\ call[1].language = "hi"
  /\ call[1].script = "devanagari"
  /\ call[1].char_counts.total_chars >= 20
  /\ call[1].token_stats.total_tokens = 6
  /\ call[1].token_stats.hi_lexicon_hits >= 1
  /\ call[1].noise = [emoji_only |-> TRUE, numeric_only |-> FALSE,
                      very_short |-> TRUE]
  /\ call[1].value = 15

\* C5: when primary_language is unknown the confidence is 0.0 if
\* emoji_only or numeric_only is set, otherwise 0.1 if very_short is set,
\* otherwise 0.2.
C5_UnknownConfidence ==
  (Returned /\ Res.primary_language = "unknown")
  =>
  LET nz == CheckNoise(text) IN
  /\ (nz.emoji_only \/ nz.numeric_only) => Res.confidence = 0
  /\ (~nz.emoji_only /\ ~nz.numeric_only /\ nz.very_short)
       => Res.confidence = 10
  /\ (~nz.emoji_only /\ ~nz.numeric_only /\ ~nz.very_short)
       => Res.confidence = 20

\* an unknown result for a text that is both numeric-only and very short
C5_Witness ==
  /\ Returned
  /\ Res.primary_language = "unknown"
  /\ CheckNoise(text).numeric_only
  /\ CheckNoise(text).very_short
  /\ Res.confidence = 0

\* C6: a result with primary_language hinglish and total_tokens < 6 never
\* has a confidence above 0.85.
C6_ShortHinglishCap ==
  (/\ Returned
   /\ Res.primary_language = "hinglish"
   /\ Res.evidence.n_tokens < 6)
  => Res.confidence <= 85

\* C7 as stated: for every empty or whitespace-only text detect returns
\* script other, primary_language unknown and confidence 0.0.
C7_EmptyTextZero ==
  (Returned /\ CountScripts(text).total_chars = 0)
  =>
  /\ Res.script = "other"
  /\ Res.primary_language = "unknown"
  /\ Res.confidence = 0

\* C7 amended: for every empty or whitespace-only text detect returns
\* script other, primary_language unknown and confidence 0.1, the value of
\* a very short unknown text.
C7_EmptyTextVeryShort ==
  (Returned /\ CountScripts(text).total_chars = 0)
  =>
  /\ Res.script = "other"
  /\ Res.primary_language = "unknown"
  /\ Res.confidence = 10

\* a whitespace-only text of three characters
C7_Witness ==
  /\ Returned
  /\ Len(text) = 3
  /\ \A i \in 1..Len(text) : IsSpace(text[i])
  /\ Res.confidence = 10

\* C8: for every text whose trimmed form is one or more characters, all of
\* the emoji ranges, emoji_only is set and detect returns (unknown, other)
\* with confidence 0.0.
C8_EmojiOnlyAnyLength ==
  (/\ Returned
   /\ Len(Strip(text)) >= 1
   /\ \A i \in 1..Len(Strip(text)) : IsEmoji(Strip(text)[i]))
  =>
  /\ CheckNoise(text).emoji_only
  /\ Res.primary_language = "unknown"
  /\ Res.script = "other"
  /\ Res.confidence = 0

\* C9: for every text whose non-empty trimmed form consists only of
\* digits, whitespace and the characters - + . , %, numeric_only is set and
\* detect returns (unknown, other) with confidence 0.0, whatever its length.
C9_NumericOnlyUnknown ==
  (/\ Returned
   /\ Len(Strip(text)) >= 1
   /\ \A i \in 1..Len(Strip(text)) :
        \/ IsDigit(Strip(text)[i])
        \/ IsSpace(Strip(text)[i])
        \/ Strip(text)[i] \in {"-", "+", ".", ",", "%"})
  =>
  /\ CheckNoise(text).numeric_only
  /\ Res.primary_language = "unknown"
  /\ Res.script = "other"
  /\ Res.confidence = 0

\* C10: when script is devanagari, total_chars >= 3 and total_tokens > 0,
\* _decide_language returns hi if total_chars >= 5 and unknown otherwise,
\* whatever hi_hits, en_hits and alnum_tokens are.
C10_DevanagariLanguage ==
  (/\ Called("_decide_language")
   /\ call[1].script = "devanagari"
   /\ call[1].char_counts.total_chars >= 3
   /\ call[1].token_stats.total_tokens > 0)
  =>
  /\ call[1].char_counts.total_chars >= 5 => call[1].value = "hi"
  /\ call[1].char_counts.total_chars < 5 => call[1].value = "unknown"

\* a Devanagari call of exactly five characters with lexicon hits
C10_Witness ==
  /\ Called("_decide_language")
  /\ call[1].script = "devanagari"
  /\ call[1].char_counts.total_chars = 5
  /\ call[1].token_stats.hi_lexicon_hits > 0
  /\ call[1].token_stats.en_stopword_hits > 0
  /\ call[1].value = "hi"

\* C11: when script is mixed, total_chars >= 3 and total_tokens > 0,
\* _decide_language returns mixed for every value of the hit counts.
C11_MixedScriptLanguage ==
  (/\ Called("_decide_language")
   /\ call[1].script = "mixed"
   /\ call[1].char_counts.total_chars >= 3
   /\ call[1].token_stats.total_tokens > 0)
  => call[1].value = "mixed"

\* a mixed-script call without any lexicon hit
C11_Witness ==
  /\ Called("_decide_language")
  /\ call[1].script = "mixed"
  /\ call[1].char_counts.total_chars >= 3
  /\ call[1].token_stats.total_tokens > 0
  /\ call[1].token_stats.hi_lexicon_hits = 0
  /\ call[1].token_stats.en_stopword_hits = 0
  /\ call[1].value = "mixed"

\* C12: when total_chars < 3 or total_tokens == 0, _decide_language
\* returns unknown for every script and every combination of hits.
C12_PreconditionUnknown ==
  (/\ Called("_decide_language")
   /\ \/ call[1].char_counts.total_chars < 3
      \/ call[1].token_stats.total_tokens = 0)
  => call[1].value = "unknown"

\* a Latin call of ten or more characters without any token
C12_Witness ==
  /\ Called("_decide_language")
  /\ call[1].script = "latin"
  /\ call[1].char_counts.total_chars >= 10
  /\ call[1].token_stats.total_tokens = 0
  /\ call[1].value = "unknown"


\* C13: detect is total: for every text, the empty one and those without
\* characters, tokens or alphanumeric tokens included, no division has a
\* zero divisor, primary_language is one of en/hi/hinglish/mixed/unknown,
\* script is one of latin/devanagari/mixed/other, and the evidence has its
\* eight fields, with both hit ratios 0.0 when alnum_tokens == 0.
C13_DetectTotal ==
  Returned =>
    LET ev == Res.evidence IN
    /\ Res.primary_language \in {"en", "hi", "hinglish", "mixed", "unknown"}
    /\ Res.script \in {"latin", "devanagari", "mixed", "other"}
    /\ DOMAIN ev = {"latin_ratio", "devanagari_ratio", "hi_lexicon_hits",
                    "en_stopword_hits", "n_tokens", "n_alnum_tokens",
                    "hi_lexicon_ratio", "en_stopword_ratio"}
    /\ ev.latin_ratio.den > 0
    /\ ev.devanagari_ratio.den > 0
    /\ ev.hi_lexicon_ratio.den > 0
    /\ ev.en_stopword_ratio.den > 0
    /\ ev.n_alnum_tokens = 0 =>
         ev.hi_lexicon_ratio.num = 0 /\ ev.en_stopword_ratio.num = 0

\* the result for the empty text
C13_Witness ==
  /\ Returned
  /\ text = <<>>
  /\ Res.evidence.n_tokens = 0
  /\ Res.evidence.n_alnum_tokens = 0
  /\ Res.evidence.hi_lexicon_ratio = Frac(0, 1)
  /\ Res.evidence.latin_ratio = Frac(0, 1)
  /\ Res.primary_language = "unknown"
  /\ Res.script = "other"


\* C14: in any interleaving of detect calls by concurrent callers on any
\* detector instances, every call returns what a lone call with its
\* (id, text) returns, so two calls with the same (id, text) return the same
\* result whatever calls came before or ran meanwhile, and the two lexicons
\* stay what the class body made them.
C14_HistoryFree ==
  /\ hindi_words = HINDI_WORDS
  /\ english_words = ENGLISH_WORDS
  /\ \A i \in 1..Len(log) : log[i].result = Detect(log[i].id, log[i].text)
  /\ \A i, j \in 1..Len(log) :
       (log[i].id = log[j].id /\ log[i].text = log[j].text)
         => log[i].result = log[j].result

\* a call that returned while a call with another text was in progress on
\* the same instance, and later the same (id, text) on the other instance
C14_Witness ==
  /\ Len(log) = 3
  /\ log[1].concurrent
  /\ log[1].detector = log[2].detector
  /\ log[1].text # log[2].text
  /\ log[3].id = log[1].id
  /\ log[3].text = log[1].text
  /\ log[3].detector # log[1].detector
  /\ log[3].result = log[1].result
  /\ log[1].result.evidence.n_alnum_tokens > 0

\* C15: for every input, 0 <= hi_lexicon_hits <= alnum_tokens <=
\* total_tokens, 0 <= en_stopword_hits <= alnum_tokens and latin_count +
\* devanagari_count <= total_chars, so the four ratios of the evidence lie
\* in [0, 1] and latin_ratio + devanagari_ratio <= 1.
C15_CountInvariants ==
  Returned =>
    LET cc == CountScripts(text)
        ts == AnalyzeTokens(text)
        ev == Res.evidence
        unit(r) == 0 <= r.num /\ r.num <= r.den
    IN /\ 0 <= ts.hi_lexicon_hits
       /\ ts.hi_lexicon_hits <= ts.alnum_tokens
       /\ 0 <= ts.en_stopword_hits
       /\ ts.en_stopword_hits <= ts.alnum_tokens
       /\ ts.alnum_tokens <= ts.total_tokens
       /\ cc.latin_count + cc.devanagari_count <= cc.total_chars
       /\ unit(ev.latin_ratio)
       /\ unit(ev.devanagari_ratio)
       /\ unit(ev.hi_lexicon_ratio)
       /\ unit(ev.en_stopword_ratio)
       /\ ev.latin_ratio.num * ev.devanagari_ratio.den
            + ev.devanagari_ratio.num * ev.latin_ratio.den
          <= ev.latin_ratio.den * ev.devanagari_ratio.den

\* a text with Latin, Devanagari and other characters, a token that is not
\* alphanumeric and a word of both lexicons
C15_Witness ==
  /\ Returned
  /\ CountScripts(text).latin_count > 0
  /\ CountScripts(text).devanagari_count > 0
  /\ CountScripts(text).latin_count + CountScripts(text).devanagari_count
       < CountScripts(text).total_chars
  /\ Res.evidence.n_alnum_tokens < Res.evidence.n_tokens
  /\ Res.evidence.hi_lexicon_hits + Res.evidence.en_stopword_hits
       > Res.evidence.n_alnum_tokens


\* the numbers, from i on, of the lines of ls that parse as a JSON object
RECURSIVE ObjectLineNumbers(_, _)
ObjectLineNumbers(ls, i) ==
  IF i > Len(ls) THEN <<>>
  ELSE (IF IsDict(ls[i]) THEN <<i>> ELSE <<>>) \o ObjectLineNumbers(ls, i + 1)

\* C16: when process_file returns, the output holds exactly one record for
\* each input line that parses as a JSON object, in the order of the input
\* lines (the k-th record carries the id of the k-th such line, its own or
\* the default line_<n>), and nothing for the other lines.
C16_OneRecordPerObjectLine ==
  pc = "returned" =>
    LET nums == ObjectLineNumbers(lines, 1)
    IN /\ Len(out) = Len(nums)
       /\ \A k \in 1..Len(nums) :
            k <= Len(out) => out[k].id = GetId(lines[nums[k]], nums[k])

\* C17: a run of main on a readable file never aborts on a malformed record
\* (invalid JSON, not an object, no text): it exits with status 0 and, unless
\* --validate-only was given, the result of every valid record of the input
\* has been written.
C17_MalformedRecordNeverAborts ==
  pc = "exited" =>
    /\ exit_code = 0
    /\ ~args.validate_only =>
         \A i \in 1..Len(lines) :
           (IsDict(lines[i]) /\ lines[i].has_text /\ lines[i].text_is_str) =>
             \E k \in 1..Len(out) :
               out[k] = Detect(GetId(lines[i], i), lines[i].text)

\* C18: for fixed character counts and token statistics, the script and the
\* language are the same under every combination of the noise flags, and
\* setting further flags never increases the confidence.
C18_NoiseOnlySuppresses ==
  Called("_compute_confidence") =>
    LET c == call[1] IN
    \A n2 \in NoiseFlags :
      LET d2 == DetectStages(c.char_counts, c.token_stats, n2) IN
      /\ d2.script = c.script
      /\ d2.primary_language = c.language
      /\ ( /\ c.noise.emoji_only => n2.emoji_only
           /\ c.noise.numeric_only => n2.numeric_only
           /\ c.noise.very_short => n2.very_short )
         => d2.confidence <= c.value

\* a call for an English result with emoji_only set alone, whose confidence
\* is positive, below the confidence without flags and above the confidence
\* with very_short set as well
C18_Witness ==
  /\ Called("_compute_confidence")
  /\ call[1].language = "en"
  /\ call[1].noise = [emoji_only |-> TRUE, numeric_only |-> FALSE, very_short |-> FALSE]
  /\ call[1].value > 0
  /\ call[1].value <
       DetectStages(call[1].char_counts, call[1].token_stats,
                    [emoji_only |-> FALSE, numeric_only |-> FALSE,
                     very_short |-> FALSE]).confidence
  /\ call[1].value >
       DetectStages(call[1].char_counts, call[1].token_stats,
                    [emoji_only |-> TRUE, numeric_only |-> FALSE,
                     very_short |-> TRUE]).confidence

\* C19: in the Latin branch rules 3 and 4 never change the outcome: for
\* Latin script with total_chars >= 3 and total_tokens > 0, _decide_language
\* returns what the first matching rule of rules 1, 2, 5, 6, 7, 8 alone
\* gives (each evaluated as the code evaluates it), also where
\* hindi_ratio = 0.2.
C19_Rules3And4Redundant ==
  (/\ Called("_decide_language")
   /\ call[1].script = "latin"
   /\ call[1].char_counts.total_chars >= 3
   /\ call[1].token_stats.total_tokens > 0)
  =>
  LET n   == call[1].token_stats.alnum_tokens
      hi  == call[1].token_stats.hi_lexicon_hits
      en  == call[1].token_stats.en_stopword_hits
      tc  == call[1].char_counts.total_chars
      d   == Max(n, 1)
      gt(x, p) == 100 * x > p * d
      without ==
        IF hi > 3 * en /\ gt(hi, 30) THEN "hinglish"
        ELSE IF FloatGt(FloatOf(Frac(en, d)), FloatTriple(Frac(hi, d)))
                /\ gt(en, 30) THEN "en"
        ELSE IF gt(hi, 20) THEN (IF gt(en, 10) THEN "mixed" ELSE "hinglish")
        ELSE IF gt(en, 15) THEN (IF gt(hi, 5) THEN "mixed" ELSE "en")
        ELSE IF gt(hi, 5) THEN (IF gt(en, 5) THEN "mixed" ELSE "hinglish")
        ELSE IF tc >= 10 THEN "en" ELSE "unknown"
  IN call[1].value = without

\* a Latin call exactly at hindi_ratio = 0.2 where rule 4 is the first rule
\* that matches: 15 tokens, 3 Hindi hits, 2 English hits; english_ratio is
\* below the 0.15 of rule 3, and rule 5 does not match because 0.2 > 0.2 is
\* false
C19_Witness ==
  /\ Called("_decide_language")
  /\ call[1].script = "latin"
  /\ call[1].char_counts.total_chars >= 3
  /\ call[1].token_stats.total_tokens > 0
  /\ call[1].token_stats.alnum_tokens = 15
  /\ call[1].token_stats.hi_lexicon_hits = 3
  /\ call[1].token_stats.en_stopword_hits = 2
  /\ call[1].value = "mixed"

\* C20: whenever detect sets very_short (trimmed length < 3) or emoji_only
\* for its text, primary_language is unknown and the confidence is at most
\* 0.1, so the penalties of 0.3 and 0.4 never meet a language other than
\* unknown through these two flags.
C20_ShortOrEmojiIsUnknown ==
  (Returned /\ (CheckNoise(text).very_short \/ CheckNoise(text).emoji_only))
  =>
  /\ Res.primary_language = "unknown"
  /\ Res.confidence <= 10

\* a text of two Latin letters between spaces: very_short alone, script
\* latin, confidence 0.1
C20_Witness ==
  /\ Returned
  /\ Len(text) = 3
  /\ CheckNoise(text) = [emoji_only |-> FALSE, numeric_only |-> FALSE,
                         very_short |-> TRUE]
  /\ Res.script = "latin"
  /\ Res.evidence.n_alnum_tokens = 1
  /\ Res.primary_language = "unknown"
  /\ Res.confidence = 10

\* C21: for Latin script _decide_language returns mixed only if
\* hi_lexicon_hits >= 1 and en_stopword_hits >= 1; with no Hindi hit it
\* returns en or unknown, and with no English hit it never returns mixed.
C21_LatinMixedNeedsBothHits ==
  (Called("_decide_language") /\ call[1].script = "latin")
  =>
  LET hi == call[1].token_stats.hi_lexicon_hits
      en == call[1].token_stats.en_stopword_hits
      v  == call[1].value
  IN /\ v = "mixed" => (hi >= 1 /\ en >= 1)
     /\ hi = 0 => v \in {"en", "unknown"}
     /\ en = 0 => v # "mixed"

\* the weakest evidence that gives mixed: one Hindi and one English hit
\* among 8 tokens, both ratios 0.125, decided by rule 7
C21_Witness ==
  /\ Called("_decide_language")
  /\ call[1].script = "latin"
  /\ call[1].token_stats.alnum_tokens = 8
  /\ call[1].token_stats.hi_lexicon_hits = 1
  /\ call[1].token_stats.en_stopword_hits = 1
  /\ call[1].value = "mixed"

\* C22: every result of detect is consistent across its fields: language hi
\* implies script devanagari; en or hinglish implies latin; script other
\* implies language unknown; script mixed implies mixed or unknown; script
\* devanagari implies hi or unknown.
C22_CrossFieldConsistency ==
  Returned =>
    /\ Res.primary_language = "hi" => Res.script = "devanagari"
    /\ Res.primary_language \in {"en", "hinglish"} => Res.script = "latin"
    /\ Res.script = "other" => Res.primary_language = "unknown"
    /\ Res.script = "mixed" => Res.primary_language \in {"mixed", "unknown"}
    /\ Res.script = "devanagari" => Res.primary_language \in {"hi", "unknown"}

\* a text of ten or more characters in several tokens with no Latin and no
\* Devanagari character: past the precondition, script other, unknown
C22_Witness ==
  /\ Returned
  /\ CountScripts(text).total_chars >= 10
  /\ Res.evidence.n_tokens >= 2
  /\ Res.evidence.n_alnum_tokens >= 2
  /\ Res.script = "other"
  /\ Res.primary_language = "unknown"

====
